---- MODULE Spec2Model ----
(***************************************************************************)
(* Model of the Logo Animator Studio front end: the App component's state  *)
(* and handlers (credential gate, logo generation, animation, reset) and   *)
(* the two service functions generateLogoImage and animateLogo with the    *)
(* polling loop.  Strings that the code inspects are sequences of text     *)
(* chunks, so that trim() and includes() are computed, not assumed.        *)
(***************************************************************************)
EXTENDS Integers, Sequences, FiniteSets, TLC

\* ------------------------------------------------------------------ bounds
MaxPromptLen == 2   \* longest prompt the user types, in characters
MaxPolls     == 7   \* most "not done" snapshots the remote returns per job
MaxImages    == 2   \* longest generatedImages list the remote returns
MaxInFlight  == 2   \* most concurrent calls of one kind that are represented

\* ----------------------------------------------------------------- strings
Null == <<>>                       \* null / falsy value of a string slot
Whitespace == {" "}
Chars == Whitespace \cup {"a"}

RECURSIVE SeqsUpTo(_, _)
SeqsUpTo(S, n) ==
    IF n = 0 THEN {<<>>}
    ELSE LET shorter == SeqsUpTo(S, n - 1)
         IN  shorter \cup {Append(s, c) : s \in {t \in shorter : Len(t) = n - 1}, c \in S}

DefaultPrompt == <<"A minimalist fox icon for a tech startup">>
Prompts == SeqsUpTo(Chars, MaxPromptLen) \cup {DefaultPrompt}

RECURSIVE TrimStart(_)
TrimStart(s) ==
    IF s # <<>> /\ Head(s) \in Whitespace THEN TrimStart(Tail(s)) ELSE s

RECURSIVE TrimEnd(_)
TrimEnd(s) ==
    IF s # <<>> /\ s[Len(s)] \in Whitespace THEN TrimEnd(SubSeq(s, 1, Len(s) - 1)) ELSE s

\* String.prototype.trim
Trim(s) == TrimEnd(TrimStart(s))

\* String.prototype.includes, on chunk sequences
Includes(s, phrase) ==
    \E i \in 1..(Len(s) + 1) :
        /\ i + Len(phrase) - 1 <= Len(s)
        /\ SubSeq(s, i, i + Len(phrase) - 1) = phrase

\* ---------------------------------------------------------------- messages
EnterDescription   == <<"Please enter a description for your logo.">>
UnknownError       == <<"An unknown error occurred.">>
CouldNotOpenKey    == <<"Could not open API key selection. Please ensure you are in a supported environment.">>
FailedToGenerate   == <<"Failed to generate logo. Please try a different prompt.">>
NoImageGenerated   == <<"No image was generated.">>
ApiKeyNotSet       == <<"API_KEY environment variable not set">>
NotFoundPhrase     == <<"Requested entity was not found">>
NotFoundMessage    == NotFoundPhrase \o <<".">>
FailedToAnimate    == <<"Failed to animate logo. Please try again.">>
NoDownloadLink     == <<"Video generation finished, but no download link was provided.">>
ApiKeyInvalid      == <<"API key is invalid">>
StartingAnimation  == <<"Starting animation process...">>
InitiatingSequence == <<"Initiating animation sequence...">>
AnimationComplete  == <<"Animation complete! Fetching video...">>

loadingMessages ==
    << <<"Warming up the animation studio...">>,
       <<"Rendering initial frames...">>,
       <<"Adding visual effects...">>,
       <<"This can take a few minutes...">>,
       <<"Finalizing the animation...">>,
       <<"Almost there, polishing the details...">> >>

DownloadFailed(statusText) == <<"Failed to download video: ">> \o statusText

\* thrown values: an Error object with a message, a bare string, or another object
Err(m) == [kind |-> "Error", message |-> m]
NoThrow == [kind |-> "none", message |-> <<>>]

\* what the remote calls (generateImages, generateVideos, getVideosOperation,
\* fetch, blob) may throw
RemoteThrown ==
    { Err(<<"400: ">> \o ApiKeyInvalid \o <<". Please pass a valid API key.">>),
      Err(<<"404: ">> \o NotFoundPhrase \o <<".">>),
      Err(<<"Network request failed">>),
      [kind |-> "string", message |-> NotFoundPhrase],
      [kind |-> "object", message |-> <<>>] }

\* error instanceof Error ? error.message : String(error)
ErrorMessage(e) ==
    CASE e.kind = "Error"  -> e.message
      [] e.kind = "string" -> e.message
      [] OTHER             -> <<"[object Object]">>

StatusTexts == { <<"Forbidden">>, <<"Not Found">>, NotFoundPhrase }

AspectRatios == {"16:9", "9:16"}

ImageBytes == {"b1", "b2"}
\* data URI built by generateLogoImage; split(',') separates its two parts
DataUri(bytes) == <<"data:image/png;base64", bytes>>
\* the response of generateImages: no list at all, or a list of images
NoList == <<"undefined">>
ImageResponses == {NoList} \cup SeqsUpTo(ImageBytes, MaxImages)

ObjectUrl == <<"blob:video">>

\* operation snapshots returned by generateVideos / getVideosOperation
Snapshots == { [done |-> FALSE, uri |-> FALSE],
               [done |-> TRUE,  uri |-> FALSE],
               [done |-> TRUE,  uri |-> TRUE] }
NoOperation == [done |-> FALSE, uri |-> FALSE]

VARIABLES
    apiKeySelected,       \* "null" | "true" | "false"
    prompt,
    aspectRatio,
    generatedImage,
    generatedVideoUrl,
    isGeneratingImage,
    isGeneratingVideo,
    videoLoadingMessage,
    error,
    envApiKey,            \* process.env.API_KEY is set
    hasAistudio,          \* window.aistudio is provided by the host
    checkPc,              \* position of the mount effect checkApiKey
    selectCalls,          \* openSelectKey calls awaiting the chooser
    imgCalls,             \* generateLogoImage calls in flight
    animCalls,            \* animateLogo calls in flight
    animLog,              \* the animateLogo call that settled since the last one began
    lastOp,               \* the handler or continuation that ran last
    checkLog,             \* what hasSelectedApiKey() answered: "none" | "true" | "false"
    imgLog,               \* the generateLogoImage call that settled last, until a call begins
    ratioAtReset          \* aspectRatio at the last reset, until it is selected again or used

uiVars == <<apiKeySelected, prompt, aspectRatio, generatedImage, generatedVideoUrl,
            isGeneratingImage, isGeneratingVideo, videoLoadingMessage, error>>
vars == <<apiKeySelected, prompt, aspectRatio, generatedImage, generatedVideoUrl,
          isGeneratingImage, isGeneratingVideo, videoLoadingMessage, error,
          envApiKey, hasAistudio, checkPc, selectCalls, imgCalls, animCalls,
          animLog, lastOp, checkLog, imgLog, ratioAtReset>>

NoImgLog == [outcome |-> "none", got |-> "none", response |-> <<>>, surfaced |-> <<>>]

NoLog == [outcome |-> "none", raised |-> NoThrow, surfaced |-> <<>>,
          polls |-> 0, notDone |-> 0, emitted |-> 0, fetches |-> 0,
          operation |-> NoOperation, gotSnapshot |-> FALSE,
          response |-> "none", statusText |-> <<>>, urlCreated |-> FALSE]

Init ==
    /\ apiKeySelected = "null"
    /\ prompt = DefaultPrompt
    /\ aspectRatio = "16:9"
    /\ generatedImage = Null
    /\ generatedVideoUrl = Null
    /\ isGeneratingImage = FALSE
    /\ isGeneratingVideo = FALSE
    /\ videoLoadingMessage = <<>>
    /\ error = Null
    /\ envApiKey \in BOOLEAN
    /\ hasAistudio \in BOOLEAN
    /\ checkPc = "mount"
    /\ selectCalls = 0
    /\ imgCalls = <<>>
    /\ animCalls = <<>>
    /\ animLog = NoLog
    /\ lastOp = "init"
    /\ checkLog = "none"
    /\ imgLog = NoImgLog
    /\ ratioAtReset = "none"

\* ------------------------------------------------------------------- views
\* variant: renderContent without the two credential tests
ViewNoCredentialGate ==
    IF generatedVideoUrl # Null THEN "VideoResult"
    ELSE IF generatedImage # Null THEN "VideoAnimator"
    ELSE "LogoGenerator"

\* renderContent: which component, and so which controls, are on screen
View ==
    IF apiKeySelected = "null" THEN "Spinner"
    ELSE IF apiKeySelected # "true" THEN "ApiKeyPrompt"
    ELSE IF generatedVideoUrl # Null THEN "VideoResult"
    ELSE IF generatedImage # Null THEN "VideoAnimator"
    ELSE "LogoGenerator"

\* the stage of the view state machine, read off the state
Stage ==
    IF apiKeySelected = "null" THEN "AwaitingCredential"
    ELSE IF apiKeySelected # "true" THEN "NoCredential"
    ELSE IF generatedVideoUrl # Null THEN "VideoReady"
    ELSE IF generatedImage # Null
         THEN (IF isGeneratingVideo THEN "GeneratingVideo" ELSE "ImageReady")
    ELSE IF isGeneratingImage THEN "GeneratingImage"
    ELSE "Idle"

RemoveAt(s, i) == SubSeq(s, 1, i - 1) \o SubSeq(s, i + 1, Len(s))

Bool(b) == IF b THEN "true" ELSE "false"

\* --------------------------------------------------------- credential gate
\* the mount effect: checkApiKey up to its first await, or to its end
CheckApiKey ==
    /\ UNCHANGED ratioAtReset
    /\ UNCHANGED <<checkLog, imgLog>>
    /\ checkPc = "mount"
    /\ IF hasAistudio
       THEN /\ checkPc' = "awaiting"
            /\ UNCHANGED apiKeySelected
       ELSE /\ checkPc' = "done"
            /\ apiKeySelected' = Bool(envApiKey)
    /\ lastOp' = "checkApiKey"
    /\ UNCHANGED <<prompt, aspectRatio, generatedImage, generatedVideoUrl,
                   isGeneratingImage, isGeneratingVideo, videoLoadingMessage, error,
                   envApiKey, hasAistudio, selectCalls, imgCalls, animCalls, animLog>>

\* variant: the answer of the provider is ignored for the environment key
HasSelectedApiKeyReturnsEnv(hasKey) ==
    /\ UNCHANGED ratioAtReset
    /\ UNCHANGED imgLog
    /\ checkPc = "awaiting"
    /\ checkPc' = "done"
    /\ checkLog' = Bool(hasKey)
    /\ apiKeySelected' = Bool(envApiKey)
    /\ lastOp' = "checkApiKey"
    /\ UNCHANGED <<prompt, aspectRatio, generatedImage, generatedVideoUrl,
                   isGeneratingImage, isGeneratingVideo, videoLoadingMessage, error,
                   envApiKey, hasAistudio, selectCalls, imgCalls, animCalls, animLog>>

\* window.aistudio.hasSelectedApiKey() resolves
HasSelectedApiKeyReturns(hasKey) ==
    /\ UNCHANGED ratioAtReset
    /\ UNCHANGED imgLog
    /\ checkPc = "awaiting"
    /\ checkPc' = "done"
    /\ checkLog' = Bool(hasKey)
    /\ apiKeySelected' = Bool(hasKey)
    /\ lastOp' = "checkApiKey"
    /\ UNCHANGED <<prompt, aspectRatio, generatedImage, generatedVideoUrl,
                   isGeneratingImage, isGeneratingVideo, videoLoadingMessage, error,
                   envApiKey, hasAistudio, selectCalls, imgCalls, animCalls, animLog>>

\* window.aistudio.hasSelectedApiKey() rejects: nothing catches it
HasSelectedApiKeyThrows ==
    /\ UNCHANGED ratioAtReset
    /\ UNCHANGED <<checkLog, imgLog>>
    /\ checkPc = "awaiting"
    /\ checkPc' = "failed"
    /\ lastOp' = "checkApiKey"
    /\ UNCHANGED <<uiVars, envApiKey, hasAistudio, selectCalls, imgCalls, animCalls, animLog>>

\* click on "Select API Key"
HandleSelectKey ==
    /\ UNCHANGED ratioAtReset
    /\ UNCHANGED <<checkLog, imgLog>>
    /\ View = "ApiKeyPrompt"
    /\ IF hasAistudio
       THEN /\ selectCalls < MaxInFlight
            /\ selectCalls' = selectCalls + 1
            /\ UNCHANGED error
       ELSE /\ error' = CouldNotOpenKey          \* TypeError on window.aistudio
            /\ UNCHANGED selectCalls
    /\ lastOp' = "handleSelectKey"
    /\ UNCHANGED <<apiKeySelected, prompt, aspectRatio, generatedImage, generatedVideoUrl,
                   isGeneratingImage, isGeneratingVideo, videoLoadingMessage,
                   envApiKey, hasAistudio, checkPc, imgCalls, animCalls, animLog>>

\* variant: the credential is marked present only when a key was installed
OpenSelectKeyReturnsConfirmed(keyInstalled) ==
    /\ UNCHANGED ratioAtReset
    /\ UNCHANGED <<checkLog, imgLog>>
    /\ selectCalls > 0
    /\ selectCalls' = selectCalls - 1
    /\ apiKeySelected' = Bool(envApiKey \/ keyInstalled)
    /\ envApiKey' = (envApiKey \/ keyInstalled)
    /\ lastOp' = "selectKeySettled"
    /\ UNCHANGED <<prompt, aspectRatio, generatedImage, generatedVideoUrl,
                   isGeneratingImage, isGeneratingVideo, videoLoadingMessage, error,
                   hasAistudio, checkPc, imgCalls, animCalls, animLog>>

\* openSelectKey() resolves; the host may have installed a key meanwhile
OpenSelectKeyReturns(keyInstalled) ==
    /\ UNCHANGED ratioAtReset
    /\ UNCHANGED <<checkLog, imgLog>>
    /\ selectCalls > 0
    /\ selectCalls' = selectCalls - 1
    /\ apiKeySelected' = "true"
    /\ envApiKey' = (envApiKey \/ keyInstalled)
    /\ lastOp' = "selectKeySettled"
    /\ UNCHANGED <<prompt, aspectRatio, generatedImage, generatedVideoUrl,
                   isGeneratingImage, isGeneratingVideo, videoLoadingMessage, error,
                   hasAistudio, checkPc, imgCalls, animCalls, animLog>>

\* openSelectKey() rejects
OpenSelectKeyThrows ==
    /\ UNCHANGED ratioAtReset
    /\ UNCHANGED <<checkLog, imgLog>>
    /\ selectCalls > 0
    /\ selectCalls' = selectCalls - 1
    /\ error' = CouldNotOpenKey
    /\ lastOp' = "selectKeyFailed"
    /\ UNCHANGED <<apiKeySelected, prompt, aspectRatio, generatedImage, generatedVideoUrl,
                   isGeneratingImage, isGeneratingVideo, videoLoadingMessage,
                   envApiKey, hasAistudio, checkPc, imgCalls, animCalls, animLog>>

\* --------------------------------------------------------- logo generation
\* the textarea of LogoGenerator
SetPrompt(p) ==
    /\ UNCHANGED ratioAtReset
    /\ UNCHANGED <<checkLog, imgLog>>
    /\ View = "LogoGenerator"
    /\ ~isGeneratingImage                        \* disabled={isLoading}
    /\ prompt' = p
    /\ lastOp' = "setPrompt"
    /\ UNCHANGED <<apiKeySelected, aspectRatio, generatedImage, generatedVideoUrl,
                   isGeneratingImage, isGeneratingVideo, videoLoadingMessage, error,
                   envApiKey, hasAistudio, checkPc, selectCalls, imgCalls, animCalls, animLog>>

\* the "Generate Logo" button is rendered and enabled
GenerateEnabled ==
    /\ View = "LogoGenerator"
    /\ ~isGeneratingImage                        \* disabled={isLoading}

\* variant: the validation without trim(), !prompt
PromptRejectedNoTrim(p) == p = <<>>

\* handleGenerateLogo's validation: !prompt.trim()
PromptRejected(p) == Trim(p) = <<>>

\* variant: the last element of the result list is taken
GenerateLogoImageResultLast(response) ==
    IF response # NoList /\ Len(response) > 0
    THEN [ok |-> TRUE,  value |-> DataUri(response[Len(response)])]
    ELSE [ok |-> FALSE, value |-> FailedToGenerate]

\* what generateLogoImage does with the response of generateImages
GenerateLogoImageResult(response) ==
    IF response # NoList /\ Len(response) > 0
    THEN [ok |-> TRUE,  value |-> DataUri(response[1])]
    ELSE [ok |-> FALSE, value |-> FailedToGenerate]

\* variant: the busy flag is cleared only on success (no finally)
GenerateSettledNoFinally(result) ==
    /\ IF result.ok
       THEN /\ generatedImage' = result.value
            /\ isGeneratingImage' = FALSE
            /\ UNCHANGED error
       ELSE /\ error' = result.value
            /\ UNCHANGED <<generatedImage, isGeneratingImage>>

\* handleGenerateLogo after its await: try / catch / finally
GenerateSettled(result) ==
    /\ IF result.ok
       THEN /\ generatedImage' = result.value
            /\ UNCHANGED error
       ELSE /\ error' = result.value
            /\ UNCHANGED generatedImage
    /\ isGeneratingImage' = FALSE

\* click on "Generate Logo": handleGenerateLogo up to its await
HandleGenerateLogo ==
    /\ UNCHANGED ratioAtReset
    /\ UNCHANGED checkLog
    /\ GenerateEnabled
    /\ IF PromptRejected(prompt)
       THEN /\ error' = EnterDescription
            /\ lastOp' = "handleGenerateLogo"
            /\ UNCHANGED <<generatedImage, isGeneratingImage, imgCalls, imgLog>>
       ELSE IF ~envApiKey
       THEN \* getGeminiClient throws inside generateLogoImage's try
            /\ GenerateSettled([ok |-> FALSE, value |-> FailedToGenerate])
            /\ imgLog' = [outcome |-> "rejected", got |-> "noClient", response |-> <<>>,
                          surfaced |-> FailedToGenerate]
            /\ lastOp' = "handleGenerateLogo"
            /\ UNCHANGED imgCalls
       ELSE /\ Len(imgCalls) < MaxInFlight
            /\ error' = Null
            /\ isGeneratingImage' = TRUE
            /\ imgCalls' = Append(imgCalls, [prompt |-> prompt])
            /\ imgLog' = NoImgLog
            /\ lastOp' = "handleGenerateLogo"
            /\ UNCHANGED generatedImage
    /\ UNCHANGED <<apiKeySelected, prompt, aspectRatio, generatedVideoUrl,
                   isGeneratingVideo, videoLoadingMessage,
                   envApiKey, hasAistudio, checkPc, selectCalls, animCalls, animLog>>

\* ai.models.generateImages resolves for call i
GenerateImagesReturns(i, response) ==
    /\ UNCHANGED ratioAtReset
    /\ UNCHANGED checkLog
    /\ i \in DOMAIN imgCalls
    /\ GenerateSettled(GenerateLogoImageResult(response))
    /\ imgLog' = LET result == GenerateLogoImageResult(response) IN
                 [outcome |-> IF result.ok THEN "resolved" ELSE "rejected", got |-> "response",
                  response |-> response, surfaced |-> IF result.ok THEN <<>> ELSE result.value]
    /\ imgCalls' = RemoveAt(imgCalls, i)
    /\ lastOp' = "generateSettled"
    /\ UNCHANGED <<apiKeySelected, prompt, aspectRatio, generatedVideoUrl,
                   isGeneratingVideo, videoLoadingMessage,
                   envApiKey, hasAistudio, checkPc, selectCalls, animCalls, animLog>>

\* variant: generateLogoImage rethrows what it caught
GenerateImagesThrowsRaw(i, thrown) ==
    /\ UNCHANGED ratioAtReset
    /\ UNCHANGED checkLog
    /\ i \in DOMAIN imgCalls
    /\ GenerateSettled([ok |-> FALSE, value |-> ErrorMessage(thrown)])
    /\ imgLog' = [outcome |-> "rejected", got |-> "thrown", response |-> <<>>,
                  surfaced |-> ErrorMessage(thrown)]
    /\ imgCalls' = RemoveAt(imgCalls, i)
    /\ lastOp' = "generateSettled"
    /\ UNCHANGED <<apiKeySelected, prompt, aspectRatio, generatedVideoUrl,
                   isGeneratingVideo, videoLoadingMessage,
                   envApiKey, hasAistudio, checkPc, selectCalls, animCalls, animLog>>

\* ai.models.generateImages rejects for call i
GenerateImagesThrows(i, thrown) ==
    /\ UNCHANGED ratioAtReset
    /\ UNCHANGED checkLog
    /\ i \in DOMAIN imgCalls
    /\ GenerateSettled([ok |-> FALSE, value |-> FailedToGenerate])
    /\ imgLog' = [outcome |-> "rejected", got |-> "thrown", response |-> <<>>,
                  surfaced |-> FailedToGenerate]
    /\ imgCalls' = RemoveAt(imgCalls, i)
    /\ lastOp' = "generateSettled"
    /\ UNCHANGED <<apiKeySelected, prompt, aspectRatio, generatedVideoUrl,
                   isGeneratingVideo, videoLoadingMessage,
                   envApiKey, hasAistudio, checkPc, selectCalls, animCalls, animLog>>

\* --------------------------------------------------------------- animation
\* variant: the aspect-ratio buttons stay enabled during an animation
SetAspectRatioNoGate(ar) ==
    /\ ratioAtReset' = "none"
    /\ UNCHANGED <<checkLog, imgLog>>
    /\ View = "VideoAnimator"
    /\ aspectRatio' = ar
    /\ lastOp' = "setAspectRatio"
    /\ UNCHANGED <<apiKeySelected, prompt, generatedImage, generatedVideoUrl,
                   isGeneratingImage, isGeneratingVideo, videoLoadingMessage, error,
                   envApiKey, hasAistudio, checkPc, selectCalls, imgCalls, animCalls, animLog>>

\* the aspect-ratio buttons of VideoAnimator
SetAspectRatio(ar) ==
    /\ ratioAtReset' = "none"
    /\ UNCHANGED <<checkLog, imgLog>>
    /\ View = "VideoAnimator"
    /\ ~isGeneratingVideo                        \* disabled={isLoading}
    /\ aspectRatio' = ar
    /\ lastOp' = "setAspectRatio"
    /\ UNCHANGED <<apiKeySelected, prompt, generatedImage, generatedVideoUrl,
                   isGeneratingImage, isGeneratingVideo, videoLoadingMessage, error,
                   envApiKey, hasAistudio, checkPc, selectCalls, imgCalls, animCalls, animLog>>

\* variant: the button is not disabled while an animation is running
AnimateEnabledNoGate == View = "VideoAnimator"

\* the "Animate Logo" button is rendered and enabled
AnimateEnabled ==
    /\ View = "VideoAnimator"
    /\ ~isGeneratingVideo                        \* disabled={isLoading}

\* variant: the catch block rethrows the message it caught
NormalizeVerbatim(thrown) == Err(ErrorMessage(thrown))

\* animateLogo's catch block: the error that leaves animateLogo
Normalize(thrown) ==
    IF Includes(ErrorMessage(thrown), NotFoundPhrase)
    THEN Err(NotFoundMessage)
    ELSE Err(FailedToAnimate)

\* handleAnimateLogo's catch: does the failure downgrade the credential state
DowngradesCredential(e) ==
    e.kind = "Error" /\ Includes(e.message, ApiKeyInvalid)

\* variant: the call is made with the default aspect ratio
NewAnimCallDefaultRatio(image, ar) ==
    [pc |-> "submit", base64Data |-> image[2], aspectRatio |-> "16:9",
     operation |-> NoOperation, gotSnapshot |-> FALSE, messageIndex |-> 0,
     polls |-> 0, notDone |-> 0, emitted |-> 1, fetches |-> 0,
     response |-> "none", statusText |-> <<>>,
     snapshotNo |-> 0,     \* ordinal of the snapshot held in `operation`
     passed |-> 0,         \* ordinal of the snapshot given to the last poll
     firstAfterReset |-> FALSE]

\* an animateLogo call at its first await
NewAnimCall(image, ar) ==
    [pc |-> "submit", base64Data |-> image[2], aspectRatio |-> ar,
     operation |-> NoOperation, gotSnapshot |-> FALSE, messageIndex |-> 0,
     polls |-> 0, notDone |-> 0, emitted |-> 1, fetches |-> 0,
     response |-> "none", statusText |-> <<>>,
     snapshotNo |-> 0,     \* ordinal of the snapshot held in `operation`
     passed |-> 0,         \* ordinal of the snapshot given to the last poll
     firstAfterReset |-> FALSE]

LogOf(call, outcome, thrown, surfaced, created) ==
    [outcome |-> outcome, raised |-> thrown, surfaced |-> surfaced,
     polls |-> call.polls, notDone |-> call.notDone, emitted |-> call.emitted,
     fetches |-> call.fetches, operation |-> call.operation,
     gotSnapshot |-> call.gotSnapshot, response |-> call.response,
     statusText |-> call.statusText, urlCreated |-> created]

\* variant: the busy flag is not cleared on failure (no finally)
AnimateRejectedNoFinally(call, thrown) ==
    LET e == Normalize(thrown) IN
    /\ apiKeySelected' = IF DowngradesCredential(e) THEN "false" ELSE apiKeySelected
    /\ error' = IF e.kind = "Error" THEN e.message ELSE UnknownError
    /\ isGeneratingVideo' = isGeneratingVideo
    /\ animLog' = LogOf(call, "rejected", thrown, e.message, FALSE)
    /\ lastOp' = "animateSettled"
    /\ UNCHANGED generatedVideoUrl

\* animateLogo throws `thrown` inside its try; handleAnimateLogo's catch and
\* finally run on the normalized error
AnimateRejected(call, thrown) ==
    LET e == Normalize(thrown) IN
    /\ apiKeySelected' = IF DowngradesCredential(e) THEN "false" ELSE apiKeySelected
    /\ error' = IF e.kind = "Error" THEN e.message ELSE UnknownError
    /\ isGeneratingVideo' = FALSE
    /\ animLog' = LogOf(call, "rejected", thrown, e.message, FALSE)
    /\ lastOp' = "animateSettled"
    /\ UNCHANGED generatedVideoUrl

\* variant: the busy flag is not cleared on success (no finally)
AnimateResolvedNoFinally(call) ==
    /\ generatedVideoUrl' = ObjectUrl
    /\ animLog' = LogOf(call, "resolved", NoThrow, <<>>, TRUE)
    /\ lastOp' = "animateSettled"
    /\ UNCHANGED <<apiKeySelected, error, isGeneratingVideo>>

\* animateLogo returns the object URL; handleAnimateLogo's try and finally
AnimateResolved(call) ==
    /\ generatedVideoUrl' = ObjectUrl
    /\ isGeneratingVideo' = FALSE
    /\ animLog' = LogOf(call, "resolved", NoThrow, <<>>, TRUE)
    /\ lastOp' = "animateSettled"
    /\ UNCHANGED <<apiKeySelected, error>>

\* variant: the error slot is not cleared when the animation starts
HandleAnimateLogoKeepsError ==
    /\ ratioAtReset' = "none"
    /\ imgLog' = NoImgLog
    /\ UNCHANGED checkLog
    /\ AnimateEnabled
    /\ generatedImage # Null                     \* if (!generatedImage) return
    /\ IF ~envApiKey
       THEN \* getGeminiClient throws inside animateLogo's try
            /\ AnimateRejected([NewAnimCall(generatedImage, aspectRatio) EXCEPT !.emitted = 0],
                               Err(ApiKeyNotSet))
            /\ videoLoadingMessage' = StartingAnimation
            /\ UNCHANGED animCalls
       ELSE /\ Len(animCalls) < MaxInFlight
            /\ UNCHANGED error
            /\ isGeneratingVideo' = TRUE
            /\ videoLoadingMessage' = InitiatingSequence
            /\ animCalls' = Append(animCalls,
                    [NewAnimCall(generatedImage, aspectRatio)
                        EXCEPT !.firstAfterReset = (ratioAtReset # "none")])
            /\ animLog' = NoLog
            /\ lastOp' = "handleAnimateLogo"
            /\ UNCHANGED <<apiKeySelected, generatedVideoUrl>>
    /\ UNCHANGED <<prompt, aspectRatio, generatedImage, isGeneratingImage,
                   envApiKey, hasAistudio, checkPc, selectCalls, imgCalls>>

\* click on "Animate Logo": handleAnimateLogo and animateLogo up to the
\* await of generateVideos
HandleAnimateLogo ==
    /\ ratioAtReset' = "none"
    /\ imgLog' = NoImgLog
    /\ UNCHANGED checkLog
    /\ AnimateEnabled
    /\ generatedImage # Null                     \* if (!generatedImage) return
    /\ IF ~envApiKey
       THEN \* getGeminiClient throws inside animateLogo's try
            /\ AnimateRejected([NewAnimCall(generatedImage, aspectRatio) EXCEPT !.emitted = 0],
                               Err(ApiKeyNotSet))
            /\ videoLoadingMessage' = StartingAnimation
            /\ UNCHANGED animCalls
       ELSE /\ Len(animCalls) < MaxInFlight
            /\ error' = Null
            /\ isGeneratingVideo' = TRUE
            /\ videoLoadingMessage' = InitiatingSequence
            /\ animCalls' = Append(animCalls,
                    [NewAnimCall(generatedImage, aspectRatio)
                        EXCEPT !.firstAfterReset = (ratioAtReset # "none")])
            /\ animLog' = NoLog
            /\ lastOp' = "handleAnimateLogo"
            /\ UNCHANGED <<apiKeySelected, generatedVideoUrl>>
    /\ UNCHANGED <<prompt, aspectRatio, generatedImage, isGeneratingImage,
                   envApiKey, hasAistudio, checkPc, selectCalls, imgCalls>>

\* variant: the download link is not tested
HasDownloadLinkAlways(snapshot) == TRUE

\* operation.response?.generatedVideos?.[0]?.video?.uri is present
HasDownloadLink(snapshot) == snapshot.uri

\* variant: the transfer status is not tested
ResponseFailedNever(ok) == FALSE

\* !response.ok
ResponseFailed(ok) == ~ok

\* variant: the loop gives up after two iterations
LoopContinuesCapped(snapshot, messageIndex) == ~snapshot.done /\ messageIndex < 2

\* while (!operation.done)
LoopContinues(snapshot, messageIndex) == ~snapshot.done

\* variant: the index stops at the last entry instead of wrapping
LoadingMessageAtClamped(messageIndex) ==
    loadingMessages[(IF messageIndex < Len(loadingMessages)
                     THEN messageIndex ELSE Len(loadingMessages) - 1) + 1]

\* loadingMessages[messageIndex % loadingMessages.length]
LoadingMessageAt(messageIndex) ==
    loadingMessages[(messageIndex % Len(loadingMessages)) + 1]

\* the test of the while loop and what follows it, on a fresh snapshot:
\* one more iteration up to the delay, or the download link and the fetch
OnSnapshot(i, call, snapshot) ==
    LET got == [call EXCEPT !.operation = snapshot, !.gotSnapshot = TRUE,
                            !.snapshotNo = @ + 1,
                            !.notDone = IF snapshot.done THEN @ ELSE @ + 1]
    IN
    IF LoopContinues(snapshot, got.messageIndex)
    THEN /\ videoLoadingMessage' = LoadingMessageAt(got.messageIndex)
         /\ animCalls' = [animCalls EXCEPT ![i] =
                [got EXCEPT !.pc = "delay", !.messageIndex = @ + 1, !.emitted = @ + 1]]
         /\ lastOp' = "animateStep"
         /\ UNCHANGED <<apiKeySelected, generatedVideoUrl, isGeneratingVideo, error, animLog>>
    ELSE /\ videoLoadingMessage' = AnimationComplete
         /\ IF ~HasDownloadLink(snapshot)
            THEN /\ AnimateRejected([got EXCEPT !.emitted = @ + 1], Err(NoDownloadLink))
                 /\ animCalls' = RemoveAt(animCalls, i)
            ELSE /\ animCalls' = [animCalls EXCEPT ![i] =
                        [got EXCEPT !.pc = "fetch", !.emitted = @ + 1, !.fetches = @ + 1]]
                 /\ lastOp' = "animateStep"
                 /\ UNCHANGED <<apiKeySelected, generatedVideoUrl, isGeneratingVideo,
                                error, animLog>>

\* variant: a do-while loop, which polls once before it tests done
GenerateVideosReturnsDoWhile(i, snapshot) ==
    /\ UNCHANGED ratioAtReset
    /\ UNCHANGED <<checkLog, imgLog>>
    /\ i \in DOMAIN animCalls
    /\ animCalls[i].pc = "submit"
    /\ snapshot.done \/ animCalls[i].notDone < MaxPolls
    /\ LET call == animCalls[i]
           got == [call EXCEPT !.operation = snapshot, !.gotSnapshot = TRUE,
                               !.snapshotNo = @ + 1,
                               !.notDone = IF snapshot.done THEN @ ELSE @ + 1]
       IN  /\ videoLoadingMessage' = LoadingMessageAt(got.messageIndex)
           /\ animCalls' = [animCalls EXCEPT ![i] =
                  [got EXCEPT !.pc = "delay", !.messageIndex = @ + 1, !.emitted = @ + 1]]
    /\ lastOp' = "animateStep"
    /\ UNCHANGED <<apiKeySelected, generatedVideoUrl, isGeneratingVideo, error, animLog>>
    /\ UNCHANGED <<prompt, aspectRatio, generatedImage, isGeneratingImage,
                   envApiKey, hasAistudio, checkPc, selectCalls, imgCalls>>

\* ai.models.generateVideos resolves for call i
GenerateVideosReturns(i, snapshot) ==
    /\ UNCHANGED ratioAtReset
    /\ UNCHANGED <<checkLog, imgLog>>
    /\ i \in DOMAIN animCalls
    /\ animCalls[i].pc = "submit"
    /\ snapshot.done \/ animCalls[i].notDone < MaxPolls
    /\ OnSnapshot(i, animCalls[i], snapshot)
    /\ UNCHANGED <<prompt, aspectRatio, generatedImage, isGeneratingImage,
                   envApiKey, hasAistudio, checkPc, selectCalls, imgCalls>>

\* the 8000 ms timer of call i fires and getVideosOperation is called
DelayElapses(i) ==
    /\ UNCHANGED ratioAtReset
    /\ UNCHANGED <<checkLog, imgLog>>
    /\ i \in DOMAIN animCalls
    /\ animCalls[i].pc = "delay"
    /\ animCalls' = [animCalls EXCEPT ![i].pc = "poll", ![i].polls = @ + 1,
                                      ![i].passed = animCalls[i].snapshotNo]
    /\ lastOp' = "animateStep"
    /\ UNCHANGED <<uiVars, envApiKey, hasAistudio, checkPc, selectCalls, imgCalls, animLog>>

\* ai.operations.getVideosOperation resolves for call i
GetVideosOperationReturns(i, snapshot) ==
    /\ UNCHANGED ratioAtReset
    /\ UNCHANGED <<checkLog, imgLog>>
    /\ i \in DOMAIN animCalls
    /\ animCalls[i].pc = "poll"
    /\ snapshot.done \/ animCalls[i].notDone < MaxPolls
    /\ OnSnapshot(i, animCalls[i], snapshot)
    /\ UNCHANGED <<prompt, aspectRatio, generatedImage, isGeneratingImage,
                   envApiKey, hasAistudio, checkPc, selectCalls, imgCalls>>

\* fetch(downloadLink) resolves for call i with a response
FetchReturns(i, ok, statusText) ==
    /\ UNCHANGED ratioAtReset
    /\ UNCHANGED <<checkLog, imgLog>>
    /\ i \in DOMAIN animCalls
    /\ animCalls[i].pc = "fetch"
    /\ LET got == [animCalls[i] EXCEPT !.response = IF ok THEN "ok" ELSE "failed",
                                       !.statusText = statusText]
       IN  IF ResponseFailed(ok)
           THEN /\ AnimateRejected(got, Err(DownloadFailed(statusText)))
                /\ animCalls' = RemoveAt(animCalls, i)
           ELSE /\ animCalls' = [animCalls EXCEPT ![i] = [got EXCEPT !.pc = "blob"]]
                /\ lastOp' = "animateStep"
                /\ UNCHANGED <<apiKeySelected, generatedVideoUrl, isGeneratingVideo,
                               error, animLog>>
    /\ UNCHANGED <<prompt, aspectRatio, generatedImage, isGeneratingImage, videoLoadingMessage,
                   envApiKey, hasAistudio, checkPc, selectCalls, imgCalls>>

\* response.blob() resolves for call i: URL.createObjectURL and return
BlobReturns(i) ==
    /\ UNCHANGED ratioAtReset
    /\ UNCHANGED <<checkLog, imgLog>>
    /\ i \in DOMAIN animCalls
    /\ animCalls[i].pc = "blob"
    /\ AnimateResolved(animCalls[i])
    /\ animCalls' = RemoveAt(animCalls, i)
    /\ UNCHANGED <<prompt, aspectRatio, generatedImage, isGeneratingImage, videoLoadingMessage,
                   envApiKey, hasAistudio, checkPc, selectCalls, imgCalls>>

\* variant: a rejected getVideosOperation is issued again
RemoteThrowsRetriesPoll(i, thrown) ==
    /\ UNCHANGED ratioAtReset
    /\ UNCHANGED <<checkLog, imgLog>>
    /\ i \in DOMAIN animCalls
    /\ animCalls[i].pc \in {"submit", "poll", "fetch", "blob"}
    /\ IF animCalls[i].pc = "poll" /\ animCalls[i].polls <= animCalls[i].notDone
       THEN /\ animCalls' = [animCalls EXCEPT ![i].polls = @ + 1]
            /\ lastOp' = "animateStep"
            /\ UNCHANGED <<apiKeySelected, generatedVideoUrl, isGeneratingVideo, error, animLog>>
       ELSE /\ AnimateRejected(animCalls[i], thrown)
            /\ animCalls' = RemoveAt(animCalls, i)
    /\ UNCHANGED <<prompt, aspectRatio, generatedImage, isGeneratingImage, videoLoadingMessage,
                   envApiKey, hasAistudio, checkPc, selectCalls, imgCalls>>

\* the awaited remote call of call i (generateVideos, getVideosOperation,
\* fetch or blob) rejects
RemoteThrows(i, thrown) ==
    /\ UNCHANGED ratioAtReset
    /\ UNCHANGED <<checkLog, imgLog>>
    /\ i \in DOMAIN animCalls
    /\ animCalls[i].pc \in {"submit", "poll", "fetch", "blob"}
    /\ AnimateRejected(animCalls[i], thrown)
    /\ animCalls' = RemoveAt(animCalls, i)
    /\ UNCHANGED <<prompt, aspectRatio, generatedImage, isGeneratingImage, videoLoadingMessage,
                   envApiKey, hasAistudio, checkPc, selectCalls, imgCalls>>

\* ------------------------------------------------------------------- reset
\* variant: the reset control is offered in the animator view as well
ResetOfferedInAnimator == View \in {"VideoResult", "VideoAnimator"}

\* the "Start Over" button is rendered: only VideoResult has it
ResetOffered == View = "VideoResult"

\* variant: the reset forgets the generated image
HandleResetKeepsImage ==
    /\ ratioAtReset' = aspectRatio
    /\ UNCHANGED <<checkLog, imgLog>>
    /\ ResetOffered
    /\ prompt' = DefaultPrompt
    /\ generatedVideoUrl' = Null
    /\ error' = Null
    /\ isGeneratingImage' = FALSE
    /\ isGeneratingVideo' = FALSE
    /\ lastOp' = "handleReset"
    /\ UNCHANGED <<apiKeySelected, aspectRatio, generatedImage, videoLoadingMessage,
                   envApiKey, hasAistudio, checkPc, selectCalls, imgCalls, animCalls, animLog>>

\* click on "Start Over"
HandleReset ==
    /\ ratioAtReset' = aspectRatio
    /\ UNCHANGED <<checkLog, imgLog>>
    /\ ResetOffered
    /\ prompt' = DefaultPrompt
    /\ generatedImage' = Null
    /\ generatedVideoUrl' = Null
    /\ error' = Null
    /\ isGeneratingImage' = FALSE
    /\ isGeneratingVideo' = FALSE
    /\ lastOp' = "handleReset"
    /\ UNCHANGED <<apiKeySelected, aspectRatio, videoLoadingMessage,
                   envApiKey, hasAistudio, checkPc, selectCalls, imgCalls, animCalls, animLog>>

\* ------------------------------------------------------------ specification
Next ==
    \/ CheckApiKey
    \/ \E hasKey \in BOOLEAN : HasSelectedApiKeyReturns(hasKey)
    \/ HasSelectedApiKeyThrows
    \/ HandleSelectKey
    \/ \E keyInstalled \in BOOLEAN : OpenSelectKeyReturns(keyInstalled)
    \/ OpenSelectKeyThrows
    \/ \E p \in Prompts : SetPrompt(p)
    \/ HandleGenerateLogo
    \/ \E i \in 1..MaxInFlight, response \in ImageResponses : GenerateImagesReturns(i, response)
    \/ \E i \in 1..MaxInFlight, thrown \in RemoteThrown : GenerateImagesThrows(i, thrown)
    \/ \E ar \in AspectRatios : SetAspectRatio(ar)
    \/ HandleAnimateLogo
    \/ \E i \in 1..MaxInFlight, snapshot \in Snapshots : GenerateVideosReturns(i, snapshot)
    \/ \E i \in 1..MaxInFlight : DelayElapses(i)
    \/ \E i \in 1..MaxInFlight, snapshot \in Snapshots : GetVideosOperationReturns(i, snapshot)
    \/ \E i \in 1..MaxInFlight, ok \in BOOLEAN, statusText \in StatusTexts : FetchReturns(i, ok, statusText)
    \/ \E i \in 1..MaxInFlight : BlobReturns(i)
    \/ \E i \in 1..MaxInFlight, thrown \in RemoteThrown : RemoteThrows(i, thrown)
    \/ HandleReset

Spec == Init /\ [][Next]_vars

\* the pending step of an animateLogo call happens: the timer fires, or the
\* awaited remote call resolves or rejects
AnimateProgress ==
    \E i \in 1..MaxInFlight :
        \/ DelayElapses(i)
        \/ \E snapshot \in Snapshots :
              GenerateVideosReturns(i, snapshot) \/ GetVideosOperationReturns(i, snapshot)
        \/ \E ok \in BOOLEAN, statusText \in StatusTexts : FetchReturns(i, ok, statusText)
        \/ BlobReturns(i)
        \/ \E thrown \in RemoteThrown : RemoteThrows(i, thrown)

\* the awaited generateImages call of a generateLogoImage call resolves or rejects
GenerateProgress ==
    \E i \in 1..MaxInFlight :
        \/ \E response \in ImageResponses : GenerateImagesReturns(i, response)
        \/ \E thrown \in RemoteThrown : GenerateImagesThrows(i, thrown)

\* the prompts typed when only the settling of requests is of interest: the
\* default description and the empty one
SettlePrompts == {DefaultPrompt, Null}

\* Next with the textarea restricted to SettlePrompts
FairNext ==
    \/ CheckApiKey
    \/ \E hasKey \in BOOLEAN : HasSelectedApiKeyReturns(hasKey)
    \/ HasSelectedApiKeyThrows
    \/ HandleSelectKey
    \/ \E keyInstalled \in BOOLEAN : OpenSelectKeyReturns(keyInstalled)
    \/ OpenSelectKeyThrows
    \/ \E p \in SettlePrompts : SetPrompt(p)
    \/ HandleGenerateLogo
    \/ HandleAnimateLogo
    \/ \E ar \in AspectRatios : SetAspectRatio(ar)
    \/ AnimateProgress
    \/ GenerateProgress
    \/ HandleReset

\* timers fire and awaited promises settle; the remote reports done or throws
\* after at most MaxPolls not-done snapshots
FairSpec ==
    Init /\ [][FairNext]_vars /\ WF_vars(AnimateProgress) /\ WF_vars(GenerateProgress)

\* ------------------------------------------------------------------ claims
IsBlank(p) == \A k \in DOMAIN p : p[k] \in Whitespace

\* an animateLogo call has just settled and handleAnimateLogo has finished
AnimSettledNow == lastOp = "animateSettled"

\* the last settled animateLogo call ended on a done snapshot without a URI
EndedWithoutLink ==
    /\ animLog.outcome = "rejected"
    /\ animLog.gotSnapshot /\ animLog.operation.done /\ ~animLog.operation.uri

\* C1: when the prompt is empty or holds only whitespace, handleGenerateLogo
\* starts no generateLogoImage call, sets the validation error and leaves the
\* isGeneratingImage flag false.
C1_BlankPromptRejected ==
    [][(lastOp' = "handleGenerateLogo" /\ IsBlank(prompt))
       => (/\ imgCalls' = imgCalls
           /\ error' = EnterDescription
           /\ isGeneratingImage' = FALSE)]_vars

C1_Witness ==
    /\ lastOp = "handleGenerateLogo"
    /\ IsBlank(prompt) /\ Len(prompt) > 0
    /\ error = EnterDescription
    /\ imgCalls = <<>> /\ ~isGeneratingImage

\* the counts of a call that has received its done snapshot with a URI
ReachedDownload(c) == c.gotSnapshot /\ c.operation.done /\ c.operation.uri

\* C2 (as stated): after N not-done snapshots and one done snapshot with a
\* URI, animateLogo has made exactly N+1 getVideosOperation calls.
C2_Original ==
    /\ \A i \in DOMAIN animCalls :
          ReachedDownload(animCalls[i]) => animCalls[i].polls = animCalls[i].notDone + 1
    /\ (animLog.outcome = "resolved") => animLog.polls = animLog.notDone + 1

\* C2 (amended): after N not-done snapshots (the first from the submission)
\* and one done snapshot with a URI, animateLogo has made exactly N
\* getVideosOperation calls and has emitted at least N progress messages.
C2_PollsEqualNotDone ==
    /\ \A i \in DOMAIN animCalls :
          ReachedDownload(animCalls[i]) =>
              /\ animCalls[i].polls = animCalls[i].notDone
              /\ animCalls[i].emitted >= animCalls[i].notDone
    /\ (animLog.outcome = "resolved") =>
              /\ animLog.polls = animLog.notDone
              /\ animLog.emitted >= animLog.notDone

C2_Witness ==
    /\ AnimSettledNow
    /\ animLog.outcome = "resolved"
    /\ animLog.notDone = 2 /\ animLog.polls = 2

\* C3: animateLogo fetches only after it has received a done snapshot that
\* carries a result URI; a call that ends on a done snapshot without a URI
\* has fetched nothing.
C3_NoFetchWithoutLink ==
    /\ \A i \in DOMAIN animCalls :
          animCalls[i].fetches > 0 => ReachedDownload(animCalls[i])
    /\ animLog.fetches > 0 => ReachedDownload(animLog)
    /\ EndedWithoutLink => animLog.fetches = 0

C3_Witness ==
    /\ AnimSettledNow
    /\ EndedWithoutLink
    /\ animLog.polls > 0
    /\ animLog.fetches = 0

\* C4 (as stated): when animateLogo ends on a done snapshot without a URI,
\* the error its caller receives and stores is the "no download link" error.
C4_NoLinkErrorSurfaced ==
    (AnimSettledNow /\ EndedWithoutLink) =>
        (animLog.surfaced = NoDownloadLink /\ error = NoDownloadLink)

\* C5: when the download response has a non-success status, animateLogo
\* fails, creates no object URL, and generatedVideoUrl is still null when
\* handleAnimateLogo has finished.
C5_FailedDownloadNoVideo ==
    /\ animLog.response = "failed" =>
          (animLog.outcome = "rejected" /\ ~animLog.urlCreated)
    /\ (AnimSettledNow /\ animLog.response = "failed") =>
          (generatedVideoUrl = Null /\ error # Null /\ ~isGeneratingVideo)

C5_Witness ==
    /\ AnimSettledNow
    /\ animLog.response = "failed"
    /\ animLog.fetches = 1
    /\ generatedVideoUrl = Null

\* C6 (as stated): when the download response has a non-success status, the
\* error with which animateLogo fails carries the status text of the response.
C6_StatusTextCarried ==
    (animLog.outcome = "rejected" /\ animLog.response = "failed") =>
        Includes(animLog.surfaced, animLog.statusText)

\* C7: the error that leaves animateLogo is "Requested entity was not found."
\* when the message of the error raised inside contains "Requested entity was
\* not found", and the generic animate failure message otherwise; the caller
\* stores that message.
C7_ErrorsNormalized ==
    /\ animLog.outcome = "rejected" =>
          /\ animLog.surfaced \in {NotFoundMessage, FailedToAnimate}
          /\ (animLog.surfaced = NotFoundMessage)
                <=> Includes(ErrorMessage(animLog.raised), NotFoundPhrase)
    /\ (AnimSettledNow /\ animLog.outcome = "rejected") => error = animLog.surfaced

C7_Witness ==
    /\ AnimSettledNow
    /\ animLog.outcome = "rejected"
    /\ animLog.raised.kind = "Error"
    /\ Includes(animLog.raised.message, NotFoundPhrase)
    /\ animLog.polls > 0
    /\ error = NotFoundMessage

\* C8 (as stated): when animateLogo fails on an error whose message says the
\* API key is invalid, handleAnimateLogo sets the credential state to absent.
C8_InvalidKeyDowngrades ==
    (/\ AnimSettledNow
     /\ animLog.outcome = "rejected"
     /\ Includes(ErrorMessage(animLog.raised), ApiKeyInvalid))
    => apiKeySelected = "false"

\* C9: after handleReset the stage is Idle, the prompt is the default text,
\* there is no image, no video and no error, and both busy flags are false.
C9_ResetToIdle ==
    lastOp = "handleReset" =>
        /\ Stage = "Idle"
        /\ prompt = DefaultPrompt
        /\ generatedImage = Null
        /\ generatedVideoUrl = Null
        /\ error = Null
        /\ ~isGeneratingImage /\ ~isGeneratingVideo

C9_Witness ==
    /\ lastOp = "handleReset"
    /\ animLog.outcome = "resolved"
    /\ Stage = "Idle"
    /\ prompt = DefaultPrompt

\* C10: at most one generateLogoImage call and at most one animateLogo call
\* is in flight, and a call in flight keeps its busy flag true.
C10_OneCallPerStage ==
    /\ Len(imgCalls) <= 1
    /\ Len(animCalls) <= 1
    /\ imgCalls # <<>> => isGeneratingImage
    /\ animCalls # <<>> => isGeneratingVideo

C10_Witness ==
    /\ Len(animCalls) = 1
    /\ animCalls[1].pc = "poll"
    /\ animCalls[1].polls = 2
    /\ isGeneratingVideo

\* handleAnimateLogo ran to its end within the click (no client could be built)
AnimateSettledInClick(before, after) == after = "animateSettled" /\ before = <<>>

\* C11 (as stated): every action that starts a transition (handleSelectKey,
\* logo submit, animate request, reset) leaves the error slot null, or holding
\* the failure of that very action, and a chooser call that returns leaves no
\* earlier error behind.
C11_ErrorClearedAtStart ==
    [][/\ (lastOp' = "handleSelectKey") =>
              (error' = Null \/ (~hasAistudio /\ error' = CouldNotOpenKey))
       /\ (lastOp' = "handleGenerateLogo") =>
              \/ error' = Null
              \/ IsBlank(prompt) /\ error' = EnterDescription
              \/ ~envApiKey /\ error' = FailedToGenerate
       /\ (lastOp' = "handleAnimateLogo") => error' = Null
       /\ AnimateSettledInClick(animCalls, lastOp') => (~envApiKey /\ error' = FailedToAnimate)
       /\ (lastOp' = "handleReset") => error' = Null
       /\ (lastOp' = "selectKeySettled") => error' = Null]_vars

\* the stages of the view state machine, each by its own condition
CredentialPresent == apiKeySelected = "true"
StageNames == {"AwaitingCredential", "NoCredential", "Idle", "GeneratingImage",
               "ImageReady", "GeneratingVideo", "VideoReady"}
Active(stage) ==
    CASE stage = "AwaitingCredential" -> apiKeySelected = "null"
      [] stage = "NoCredential"       -> apiKeySelected = "false"
      [] stage = "Idle"               -> /\ CredentialPresent
                                         /\ generatedImage = Null /\ generatedVideoUrl = Null
                                         /\ ~isGeneratingImage /\ ~isGeneratingVideo
      [] stage = "GeneratingImage"    -> CredentialPresent /\ isGeneratingImage
      [] stage = "ImageReady"         -> /\ CredentialPresent
                                         /\ generatedImage # Null /\ generatedVideoUrl = Null
                                         /\ ~isGeneratingVideo
      [] stage = "GeneratingVideo"    -> CredentialPresent /\ isGeneratingVideo
      [] stage = "VideoReady"         -> CredentialPresent /\ generatedVideoUrl # Null

\* C12: exactly one stage is active; isGeneratingVideo implies an image is
\* stored; a successfully settled animation (VideoReady) implies a video is
\* stored.
C12_OneStage ==
    /\ Cardinality({stage \in StageNames : Active(stage)}) = 1
    /\ Active(Stage)
    /\ isGeneratingVideo => generatedImage # Null
    /\ (lastOp = "animateSettled" /\ animLog.outcome = "resolved") =>
          (Active("VideoReady") /\ generatedVideoUrl # Null)

C12_Witness ==
    /\ Active("GeneratingVideo")
    /\ generatedImage # Null
    /\ Len(animCalls) = 1 /\ animCalls[1].pc = "poll"

\* C13: a successful generation stores exactly the handle built from the
\* first image of the response, and a stored image or video is changed only
\* by handleReset, which sets it to null.
C13_StoredUntilReset ==
    [][/\ (lastOp' = "generateSettled" /\ imgLog'.outcome = "resolved") =>
              (Len(imgLog'.response) > 0 /\ generatedImage' = DataUri(imgLog'.response[1]))
       /\ (generatedImage # Null /\ generatedImage' # generatedImage) =>
              (lastOp' = "handleReset" /\ generatedImage' = Null)
       /\ (generatedVideoUrl # Null /\ generatedVideoUrl' # generatedVideoUrl) =>
              (lastOp' = "handleReset" /\ generatedVideoUrl' = Null)]_vars

C13_Witness ==
    /\ lastOp = "generateSettled"
    /\ imgLog.outcome = "resolved"
    /\ Len(imgLog.response) = 2 /\ imgLog.response[1] # imgLog.response[2]
    /\ generatedImage = DataUri(imgLog.response[1])

\* C14: selecting an aspect ratio changes nothing but aspectRatio; the value
\* cannot change while an animation is in flight, and a call that starts
\* carries the value selected last.
C14_AspectRatioFrame ==
    [][/\ (lastOp' = "setAspectRatio") =>
              /\ generatedImage' = generatedImage /\ prompt' = prompt
              /\ generatedVideoUrl' = generatedVideoUrl /\ error' = error
              /\ isGeneratingImage' = isGeneratingImage
              /\ isGeneratingVideo' = isGeneratingVideo
              /\ animCalls' = animCalls /\ imgCalls' = imgCalls
       /\ (animCalls # <<>> \/ isGeneratingVideo) => aspectRatio' = aspectRatio
       /\ (Len(animCalls') > Len(animCalls)) =>
              /\ aspectRatio' = aspectRatio
              /\ animCalls'[Len(animCalls')].aspectRatio = aspectRatio
       /\ \A i \in DOMAIN animCalls' : animCalls'[i].aspectRatio = aspectRatio']_vars

C14_Witness ==
    /\ Len(animCalls) = 1
    /\ animCalls[1].pc = "delay"
    /\ animCalls[1].aspectRatio = "9:16"
    /\ aspectRatio = "9:16"

\* C15: a generation or animation request starts, and is in flight, only
\* while the credential state is present.
C15_CredentialGate ==
    [][/\ (\/ lastOp' \in {"handleGenerateLogo", "handleAnimateLogo"}
           \/ AnimateSettledInClick(animCalls, lastOp')
           \/ Len(imgCalls') > Len(imgCalls)
           \/ Len(animCalls') > Len(animCalls)) => apiKeySelected = "true"
       /\ (imgCalls' # <<>> \/ animCalls' # <<>>) => apiKeySelected' = "true"]_vars

C15_Witness ==
    /\ Len(imgCalls) = 1
    /\ checkLog = "false"
    /\ apiKeySelected = "true"

GenerateSettledNow ==
    \/ lastOp = "generateSettled"
    \/ lastOp = "handleGenerateLogo" /\ ~IsBlank(prompt) /\ imgLog.outcome = "rejected"

GenerateFailureOutcome ==
    /\ imgLog.outcome = "rejected" => imgLog.surfaced = FailedToGenerate
    /\ (GenerateSettledNow /\ imgLog.outcome = "rejected") =>
          /\ Active("Idle")
          /\ error = FailedToGenerate
          /\ generatedImage = Null
          /\ ~isGeneratingImage

\* C17 (as stated): every failure of generateLogoImage surfaces the one
\* message and leads back to Idle with it; a success leads to ImageReady with
\* isGeneratingImage false and no error.
C17_Original ==
    /\ GenerateFailureOutcome
    /\ (GenerateSettledNow /\ imgLog.outcome = "resolved") =>
          (Active("ImageReady") /\ ~isGeneratingImage /\ error = Null)

\* C17 (amended): as stated, except that on success the settle sets no error:
\* the error slot keeps its value, which is null unless an openSelectKey call
\* failed while the generation was in flight.
C17_GenerateOutcome ==
    /\ []GenerateFailureOutcome
    /\ [][(lastOp' = "generateSettled" /\ imgLog'.outcome = "resolved") =>
              /\ Active("ImageReady")' /\ ~isGeneratingImage'
              /\ error' = error
              /\ error' \in {Null, CouldNotOpenKey}]_vars

C17_Witness ==
    /\ lastOp = "generateSettled"
    /\ imgLog.outcome = "rejected" /\ imgLog.got = "response"
    /\ imgLog.response = <<>>
    /\ error = FailedToGenerate
    /\ Active("Idle")

CredentialAvailable == IF hasAistudio THEN checkLog = "true" ELSE envApiKey

\* C19: the stage is AwaitingCredential at the start; the startup check runs
\* once; when it resolves the stage is Idle if the provider (or, without a
\* provider, the environment) has a credential and NoCredential otherwise;
\* the stage never returns to AwaitingCredential.
C19_StartupCheck ==
    /\ Active("AwaitingCredential")
    /\ [][/\ (checkPc # "mount") => (checkPc' # "mount")
          /\ (checkPc \in {"done", "failed"}) => (checkPc' = checkPc /\ checkLog' = checkLog)
          /\ (checkPc' # "done" /\ lastOp' = "checkApiKey") => Active("AwaitingCredential")'
          /\ (checkPc # "done" /\ checkPc' = "done") =>
                 /\ CredentialAvailable' => Active("Idle")'
                 /\ ~CredentialAvailable' => Active("NoCredential")'
          /\ ~Active("AwaitingCredential") => ~Active("AwaitingCredential")']_vars

C19_Witness ==
    /\ checkPc = "done"
    /\ hasAistudio /\ checkLog = "false" /\ envApiKey
    /\ lastOp = "checkApiKey"
    /\ Active("NoCredential")

\* what ends an animateLogo call besides a done snapshot
EndingThrows == RemoteThrown \cup {Err(ApiKeyNotSet)}

\* C20: an animateLogo call settles only on a done snapshot or a thrown
\* error; after a not-done snapshot the call is in the loop (delay or poll),
\* whatever the number of iterations, and while it is in flight the stage is
\* GeneratingVideo.
C20_LoopEndsOnlyOnDone ==
    /\ animCalls # <<>> => (isGeneratingVideo /\ Active("GeneratingVideo"))
    /\ \A i \in DOMAIN animCalls :
          (animCalls[i].gotSnapshot /\ ~animCalls[i].operation.done) =>
              animCalls[i].pc \in {"delay", "poll"}
    /\ animLog.outcome # "none" =>
          \/ animLog.gotSnapshot /\ animLog.operation.done
          \/ animLog.outcome = "rejected" /\ animLog.raised \in EndingThrows

C20_Witness ==
    /\ Len(animCalls) = 1
    /\ animCalls[1].notDone = MaxPolls
    /\ animCalls[1].pc = "poll"
    /\ Active("GeneratingVideo")

\* the remote calls an animateLogo call has made fit one pass without retry:
\* every poll answers to one not-done snapshot and there is at most one fetch
OnePassCounts(c) ==
    /\ c.polls <= c.notDone
    /\ c.fetches <= 1

\* C21: nothing is retried: an accepted submit adds exactly one
\* generateImages request and an animate request exactly one generateVideos
\* submission, only a click adds a request, a call never goes back to its
\* submission or makes a second fetch, and the step in which a remote call
\* fails ends the call and issues nothing.
C21_NoRetry ==
    /\ [](/\ \A i \in DOMAIN animCalls :
                /\ OnePassCounts(animCalls[i])
                /\ (animCalls[i].pc = "submit") <=> ~animCalls[i].gotSnapshot
                /\ (animCalls[i].pc \in {"fetch", "blob"}) <=> (animCalls[i].fetches = 1)
          /\ OnePassCounts(animLog))
    /\ [][/\ (Len(imgCalls') > Len(imgCalls)) =>
                 /\ lastOp' = "handleGenerateLogo"
                 /\ imgCalls' = Append(imgCalls, [prompt |-> prompt])
          /\ (Len(animCalls') > Len(animCalls)) =>
                 /\ lastOp' = "handleAnimateLogo"
                 /\ Len(animCalls') = Len(animCalls) + 1
                 /\ animCalls'[Len(animCalls')].pc = "submit"
          /\ (lastOp' = "generateSettled") =>
                 (Len(imgCalls') = Len(imgCalls) - 1 /\ animCalls' = animCalls)
          /\ (lastOp' = "animateSettled" /\ animLog'.outcome = "rejected") =>
                 /\ imgCalls' = imgCalls
                 /\ \/ Len(animCalls') = Len(animCalls) - 1
                    \/ AnimateSettledInClick(animCalls, lastOp') /\ animCalls' = animCalls
          /\ (lastOp' = "handleGenerateLogo" /\ imgLog'.outcome = "rejected") =>
                 imgCalls' = imgCalls]_vars

C21_Witness ==
    /\ lastOp = "animateSettled"
    /\ animLog.outcome = "rejected"
    /\ animLog.raised \in RemoteThrown
    /\ animLog.polls = 2 /\ animLog.notDone = 2
    /\ animCalls = <<>>
    /\ ~isGeneratingVideo

\* C22: while a call is in iteration k of the loop (k = 0, 1, ...; it has
\* received k+1 not-done snapshots), the message shown is entry k mod 6 of
\* loadingMessages, k+1 loop messages have been emitted, and the poll of that
\* iteration, the (k+1)-th, comes after the delay and passes the snapshot
\* received last.
C22_RoundRobinMessages ==
    \A i \in DOMAIN animCalls :
        LET c == animCalls[i]
            k == c.notDone - 1
        IN  (c.pc \in {"delay", "poll"}) =>
                /\ k >= 0
                /\ videoLoadingMessage = loadingMessages[(k % Len(loadingMessages)) + 1]
                /\ c.messageIndex = k + 1
                /\ c.emitted = c.messageIndex + 1
                /\ c.snapshotNo = k + 1
                /\ (c.pc = "delay") => (c.polls = k /\ c.passed = k)
                /\ (c.pc = "poll") => (c.polls = k + 1 /\ c.passed = c.snapshotNo)

C22_Witness ==
    /\ Len(animCalls) = 1
    /\ animCalls[1].pc = "poll"
    /\ animCalls[1].notDone = Len(loadingMessages) + 1
    /\ videoLoadingMessage = loadingMessages[1]

\* C23: when timers fire and remote calls answer, and the remote reports
\* done or throws after finitely many not-done snapshots, every animateLogo
\* call settles and isGeneratingVideo becomes false again, and every
\* generateLogoImage call settles and isGeneratingImage becomes false again.
C23_RequestsSettle ==
    /\ [](isGeneratingVideo <=> animCalls # <<>>)
    /\ [](isGeneratingImage <=> imgCalls # <<>>)
    /\ isGeneratingVideo ~> ~isGeneratingVideo
    /\ isGeneratingImage ~> ~isGeneratingImage

C23_Witness ==
    /\ lastOp = "animateSettled"
    /\ animLog.outcome = "resolved"
    /\ animLog.notDone = MaxPolls
    /\ animCalls = <<>>
    /\ ~isGeneratingVideo

\* C24: handleReset runs only in the VideoReady view, where no
\* generateLogoImage or animateLogo call is in flight and no busy flag is set;
\* every later settle is of a call that was added to the calls in flight
\* after the reset, so no settle of an earlier request writes after it.
C24_ResetWithNothingInFlight ==
    /\ []((View = "VideoResult") =>
              (imgCalls = <<>> /\ animCalls = <<>> /\ ~isGeneratingImage /\ ~isGeneratingVideo))
    /\ [][/\ (lastOp' = "handleReset") =>
                 /\ View = "VideoResult"
                 /\ imgCalls = <<>> /\ animCalls = <<>>
                 /\ imgCalls' = <<>> /\ animCalls' = <<>>
          /\ (lastOp' = "generateSettled") => Len(imgCalls') = Len(imgCalls) - 1
          /\ (lastOp' = "animateSettled" /\ ~AnimateSettledInClick(animCalls, lastOp')) =>
                 Len(animCalls') = Len(animCalls) - 1
          /\ (lastOp' \in {"generateSettled", "animateSettled"}) => lastOp # "handleReset"]_vars

C24_Witness ==
    /\ ratioAtReset # "none"
    /\ lastOp = "generateSettled"
    /\ imgLog.outcome = "resolved"
    /\ generatedImage # Null
    /\ imgCalls = <<>>

\* C25 (as stated): a stored video implies a stored image, the two busy
\* flags are never both true, and in VideoReady the error slot is null.
C25_Original ==
    /\ generatedVideoUrl # Null => generatedImage # Null
    /\ ~(isGeneratingImage /\ isGeneratingVideo)
    /\ Active("VideoReady") => error = Null

\* C25 (amended): a stored video implies a stored image, the two busy flags
\* are never both true, and a successful animate settle leaves the error slot
\* as it was: in VideoReady it is null unless an openSelectKey call failed
\* after the animate request began, and then it holds the credential message.
C25_VideoReadyState ==
    /\ [](generatedVideoUrl # Null => generatedImage # Null)
    /\ [](~(isGeneratingImage /\ isGeneratingVideo))
    /\ []((isGeneratingVideo \/ Active("VideoReady")) => error \in {Null, CouldNotOpenKey})
    /\ [][(lastOp' = "animateSettled" /\ animLog'.outcome = "resolved") => error' = error]_vars

C25_Witness ==
    /\ lastOp = "animateSettled"
    /\ animLog.outcome = "resolved"
    /\ Active("VideoReady")
    /\ generatedImage # Null
    /\ error = Null

\* C26: handleReset leaves aspectRatio, apiKeySelected and videoLoadingMessage
\* unchanged and the credential present (the generator view follows, not the
\* credential prompt); the first animate request after a reset, unless a
\* ratio is selected in between, carries the ratio selected before the reset.
C26_ResetFrame ==
    [][/\ (lastOp' = "handleReset") =>
              /\ aspectRatio' = aspectRatio
              /\ videoLoadingMessage' = videoLoadingMessage
              /\ apiKeySelected' = apiKeySelected /\ apiKeySelected' = "true"
              /\ View' = "LogoGenerator"
              /\ ratioAtReset' = aspectRatio
       /\ (ratioAtReset # "none") => (aspectRatio = ratioAtReset /\ apiKeySelected = "true")
       /\ (Len(animCalls') > Len(animCalls) /\ ratioAtReset # "none") =>
              /\ animCalls'[Len(animCalls')].firstAfterReset
              /\ animCalls'[Len(animCalls')].aspectRatio = ratioAtReset]_vars

C26_Witness ==
    /\ Len(animCalls) = 1
    /\ animCalls[1].firstAfterReset
    /\ animCalls[1].aspectRatio = "9:16"
    /\ videoLoadingMessage = InitiatingSequence

====
